---- MODULE Spec2Model ----
(***************************************************************************)
(* A model of the two scrapers of the repository.                          *)
(*                                                                         *)
(*   src/vinilsul_scraper.py          the JSON variant: main,              *)
(*                                    discover_product_urls, fetch_html,   *)
(*                                    scrape_product_details               *)
(*   src/vinilsul_scraper_csv_sku.py  the browser/CSV variant:             *)
(*                                    VinilSulScraper.run and its helpers  *)
(*                                                                         *)
(* Both programs are single-threaded; each is one state machine whose      *)
(* program counter (pc, cpc) names the statement about to run.  What the   *)
(* network answers (a response, a failure, the markup of a page) is an     *)
(* input of the step that reads it.  Variables whose comment says "ghost"  *)
(* are not program state: they record what happened, for the properties.   *)
(***************************************************************************)
EXTENDS Integers, Sequences, FiniteSets

\* ------------------------------------------------------------------ bounds

\* Listing pages of the site: listing URL i stands for ".../page/i/".
NumListing == 2
\* Product pages of the site.
NumProducts == 2
\* Most product anchors on one listing page.
MaxLinks == 2
\* Most entries of start_urls.
MaxStart == 2
\* The ghost counters stop counting here ("this many or more").
MaxCount == 2

\* ----------------------------------------------------------------- strings

\* A string is the sequence of its code points (ASCII).
RECURSIVE Digits(_)
Digits(n) == IF n < 10 THEN <<48 + n>> ELSE Digits(n \div 10) \o <<48 + (n % 10)>>

\* "h:" stands for the scheme and host of the one site, "https://www.vinilsul.com.br".
Origin == <<104, 58>>

\* The path of product i is "/<i+8>": "/9", "/10", "/11" sort differently as
\* strings and as numbers.  The path of listing page i is "/p<i>".
ProductPath(i) == <<47>> \o Digits(i + 8)
ListingPath(i) == <<47, 112>> \o Digits(i)

ProductUrls == {Origin \o ProductPath(i) : i \in 1..NumProducts}
ListingUrls == {Origin \o ListingPath(i) : i \in 1..NumListing}

\* What an anchor's href may hold: an absolute URL, a host-relative path, or
\* nothing (NoHref: the attribute is missing or empty, `not href` is true).
NoHref == <<>>
ProductHrefs == ProductUrls \cup {ProductPath(i) : i \in 1..NumProducts} \cup {NoHref}
ListingHrefs == ListingUrls \cup {ListingPath(i) : i \in 1..NumListing} \cup {NoHref}

\* Optional values: None, and a present value.
None == <<>>
Some(x) == <<x>>

Range(s) == {s[i] : i \in 1..Len(s)}

SeqsUpTo(S, n) == UNION {[1..k -> S] : k \in 0..n}

\* A ghost counter, which stops at MaxCount.
Bump(n) == IF n < MaxCount THEN n + 1 ELSE n

HasScheme(url) == Len(url) >= Len(Origin) /\ SubSeq(url, 1, Len(Origin)) = Origin

\* urljoin of a base URL of the site and an href that is an absolute URL (kept)
\* or a host-relative path (appended to the base's scheme and host).
urljoin(base, url) ==
    IF HasScheme(url) THEN url ELSE SubSeq(base, 1, Len(Origin)) \o url

absolute_url(base_url, maybe_relative_url) == urljoin(base_url, maybe_relative_url)

\* Faulty variant of StrLt: The shorter string first, as a comparison of numbers would.
RECURSIVE StrLt_ShorterFirst(_, _)
StrLt_ShorterFirst(a, b) ==
    \/ Len(a) < Len(b)
    \/ /\ Len(a) = Len(b)
       /\ a # <<>>
       /\ \/ Head(a) < Head(b)
          \/ Head(a) = Head(b) /\ StrLt_ShorterFirst(Tail(a), Tail(b))

\* Python's < on str: the first differing code point decides, and a proper
\* prefix is smaller.
RECURSIVE StrLt(_, _)
StrLt(a, b) ==
    IF b = <<>> THEN FALSE
    ELSE IF a = <<>> THEN TRUE
    ELSE IF Head(a) # Head(b) THEN Head(a) < Head(b)
    ELSE StrLt(Tail(a), Tail(b))

\* list.insert at the place x takes in the sorted list s.
RECURSIVE Insort(_, _)
Insort(x, s) ==
    IF s = <<>> THEN <<x>>
    ELSE IF StrLt(x, Head(s)) THEN <<x>> \o s
    ELSE <<Head(s)>> \o Insort(x, Tail(s))

\* sorted(S) of a set of strings.
RECURSIVE sorted(_)
sorted(S) ==
    IF S = {} THEN <<>>
    ELSE LET x == CHOOSE y \in S : TRUE IN Insort(x, sorted(S \ {x}))

\* --------------------------------------------------------- listing markup

\* The markup of a listing page, by what discover_product_urls reads of it:
\*   its anchors  the href of each a.button.product_type_simple, in document order;
\*   its pager    whether a.next.page-numbers exists (el), and its href.
Pagers == {[el |-> FALSE, href |-> NoHref]} \cup {[el |-> TRUE, href |-> h] : h \in ListingHrefs}

ListingAnchors == SeqsUpTo(ProductHrefs, MaxLinks)

VARIABLES
    \* ---- JSON variant, program state
    start_urls,             \* the module's start_urls list
    pc,                     \* the statement about to run
    queue,                  \* discover_product_urls: deque of listing URLs
    visited_listing_pages,  \* discover_product_urls: set
    product_urls,           \* discover_product_urls: set
    listing_url,            \* discover_product_urls: the URL popped ("": none yet)
    caller,                 \* who called fetch_html: "listing" or "product"
    response,               \* fetch_html: what session.get returned
    html,                   \* fetch_html's result: None or Some("text")
    found,                  \* main: the list discover_product_urls returned
    idx,                    \* main: position in found
    results,                \* main: the list of records
    sink,                   \* the JSON file: None, or Some(list written)
    \* ---- JSON variant, ghost
    fetches,                \* per listing URL, the fetch_html calls (to MaxCount)
    ok_pages,               \* listing URLs whose fetch returned markup
    failed_pages,           \* listing URLs whose fetch returned None
    linked,                 \* product URLs linked from the fetched listing pages
    relinked,               \* a fetched page linked a URL an earlier one had linked
    next_of,                \* per listing URL, the next page its markup named ("": none)
    discover_calls,         \* calls of discover_product_urls (to MaxCount)
    product_fetches,        \* fetch_html calls for product pages so far (to MaxCount)
    fates,                  \* per record of results, how its item ended
    delay_due,              \* a GET was issued and time.sleep has not run since
    \* ---- CSV variant, program state
    base_url,               \* VinilSulScraper.base_url
    cpc,                    \* run: the statement about to run
    current_url,            \* run: the listing page at hand ("": none)
    page_index,             \* run: printed only; counted to MaxCount
    seen_links,             \* run: set of product links
    produtos,               \* run: the list of Produto
    product_links,          \* run: the links parsed from the listing page
    link_i,                 \* run: position of `for link in product_links`
    csv,                    \* the CSV file: None, or Some(rows written)
    \* ---- CSV variant, ghost
    loads,                  \* per listing URL, the page.goto calls (to MaxCount)
    failed_links,           \* product links whose processing raised
    listing_failure,        \* how a listing page.goto failed: "none", "timeout", "error"
    skipped_next,           \* the next-page href of a page left at `if not product_links`
    \* ---- _download_images, program state
    ipc,                    \* the statement about to run
    image_urls,             \* the argument: the image URLs of one product
    files,                  \* the file names that exist in product_dir
    img_i,                  \* position of `for idx, img_url in enumerate(image_urls, start=1)`
    relative_paths,         \* the list being built, then returned
    \* ---- _download_images, ghost
    call,                   \* 1: the first call, 2: the call repeated with the same arguments
    image_fetches,          \* requests.get calls of the call at hand (to MaxCount)
    first_paths,            \* what the first call returned
    first_clean,            \* no image of the first call raised
    \* ---- scrape_product_details, once the page is fetched: program state
    spc,                    \* the statement about to run
    product_url,            \* the argument
    soup,                   \* the parsed markup
    title,                  \* the locals from which the record is built
    short_description,
    categories,
    tags,
    advantages,
    technical_info,
    desc_tab,               \* what select_one("div#tab-description") returned
    desc_tab_bound,         \* whether the local desc_tab has been assigned
    \* ---- scrape_product_details, ghost
    faults                  \* the sections whose try block raised

jsonVars == <<start_urls, pc, queue, visited_listing_pages, product_urls, listing_url,
              caller, response, html, found, idx, results, sink,
              fetches, ok_pages, failed_pages, linked, relinked, next_of, discover_calls,
              product_fetches, fates, delay_due>>

csvVars == <<base_url, cpc, current_url, page_index, seen_links, produtos, product_links,
             link_i, csv, loads, failed_links, listing_failure, skipped_next>>

imageVars == <<ipc, image_urls, files, img_i, relative_paths, call, image_fetches,
               first_paths, first_clean>>

scrapeVars == <<spc, product_url, soup, title, short_description, categories, tags,
                advantages, technical_info, desc_tab, desc_tab_bound, faults>>

vars == <<jsonVars, csvVars, imageVars, scrapeVars>>

\* What each program leaves alone: the variables of the others.
notJsonVars == <<csvVars, imageVars, scrapeVars>>
notCsvVars == <<jsonVars, imageVars, scrapeVars>>
notImageVars == <<jsonVars, csvVars, scrapeVars>>
notScrapeVars == <<jsonVars, csvVars, imageVars>>

\* ------------------------------------------------------ product markup (JSON)

\* Most nodes of a product page's description (in and after div#tab-description).
MaxNodes == 3
\* Most line-break-separated segments of the technical paragraph.
MaxParts == 3

\* "v" stands for the marker word "vantagens", "m" for the marker phrase
\* "informações técnicas" ("V", "M": with capitals).
AdvMarker == <<118>>
TechMarker == <<109>>

\* str.lower(), on ASCII.
Lower(s) == [i \in 1..Len(s) |-> IF s[i] \in 65..90 THEN s[i] + 32 ELSE s[i]]

\* `sub in s`
Contains(s, sub) == \E i \in 1..(Len(s) - Len(sub) + 1) : SubSeq(s, i, i + Len(sub) - 1) = sub

\* s.startswith(prefix)
StartsWith(s, prefix) == Len(s) >= Len(prefix) /\ SubSeq(s, 1, Len(prefix)) = prefix

\* str.strip(): the spaces at both ends go.
RECURSIVE LStrip(_)
LStrip(s) == IF s # <<>> /\ Head(s) = 32 THEN LStrip(Tail(s)) ELSE s
RECURSIVE RStrip(_)
RStrip(s) == IF s # <<>> /\ s[Len(s)] = 32 THEN RStrip(SubSeq(s, 1, Len(s) - 1)) ELSE s
Strip(s) == RStrip(LStrip(s))

\* s.split(":", 1) of a string that holds a colon: what is before the first
\* colon, and what is after it.
RECURSIVE BeforeColon(_)
BeforeColon(s) == IF s = <<>> \/ Head(s) = 58 THEN <<>> ELSE <<Head(s)>> \o BeforeColon(Tail(s))
RECURSIVE AfterColon(_)
AfterColon(s) == IF s = <<>> THEN <<>> ELSE IF Head(s) = 58 THEN Tail(s) ELSE AfterColon(Tail(s))

\* A dict is the list of its <<key, value>> items, in insertion order.
\* Faulty variant of DictSet: A key that is there keeps its value.
DictSet_FirstWins(d, key, value) ==
    IF \E i \in 1..Len(d) : d[i][1] = key THEN d ELSE Append(d, <<key, value>>)

\* d[key] = value
DictSet(d, key, value) ==
    IF \E i \in 1..Len(d) : d[i][1] = key
    THEN [i \in 1..Len(d) |-> IF d[i][1] = key THEN <<key, value>> ELSE d[i]]
    ELSE Append(d, <<key, value>>)

\* The nodes of a description, in document order:
\*   kind "h2"  a heading; text holds its text
\*   kind "ul"  a list; items holds the texts of its li
\*   kind "p"   a paragraph; text holds the text of its first strong (None:
\*              it has none), items the texts of the segments its inner markup
\*              splits into at the line breaks, tags removed
H2(text) == [kind |-> "h2", text |-> Some(text), items |-> <<>>]
Ul(items) == [kind |-> "ul", text |-> None, items |-> items]
P(strong, segments) == [kind |-> "p", text |-> strong, items |-> segments]

\* The markup of a product page, by the elements scrape_product_details
\* selects: None where select_one finds nothing.
\*   title_el    text of h2.product_title.entry-title
\*   sd_el       text of div.woocommerce-product-details__short-description
\*   posted_in   texts of the anchors of span.posted_in
\*   tagged_as   texts of the anchors of span.tagged_as
\*   tab         the nodes of div#tab-description
\*   rest        the nodes that follow div#tab-description in the document
\*               (all the nodes, when there is no such div)
BareDoc ==
    [title_el |-> None, sd_el |-> None, posted_in |-> None, tagged_as |-> None,
     tab |-> None, rest |-> <<>>]

\* "Vantagens" with the list "a", "" ; "M:" (the title line), "a: b".
FullDoc ==
    [title_el |-> Some("Vinil"), sd_el |-> Some("Vinil adesivo"),
     posted_in |-> Some(<<"Suprimentos", "", "Vinil">>), tagged_as |-> Some(<<"", "corte">>),
     tab |-> Some(<<H2(<<86>>), Ul(<< <<97>>, <<>> >>),
                    P(Some(<<77, 58>>), << <<77, 58>>, <<97, 58, 32, 98>> >>)>>),
     rest |-> <<>>]

ProductDocs == {BareDoc, FullDoc}

\* [t for t in texts if t], on the anchors of an optional container.
NonEmptyTexts(container) ==
    IF container = None THEN <<>>
    ELSE SelectSeq(container[1], LAMBDA t : t # "")

\* The loop over h2_list: the place of the first h2, from place k on, whose
\* lowered text holds the marker word (0: none).
RECURSIVE FindHeading(_, _)
FindHeading(nodes, k) ==
    IF k > Len(nodes) THEN 0
    ELSE IF nodes[k].kind = "h2" /\ Contains(Lower(nodes[k].text[1]), AdvMarker) THEN k
    ELSE FindHeading(nodes, k + 1)

\* Faulty variant of find_next_ul: The first list of the document, wherever it is.
find_next_ul_Any(nodes, k) ==
    IF \A j \in 1..Len(nodes) : nodes[j].kind # "ul" THEN 0
    ELSE CHOOSE j \in 1..Len(nodes) :
            nodes[j].kind = "ul" /\ \A i \in 1..(j - 1) : nodes[i].kind # "ul"

\* target_h2.find_next("ul"): the place of the first ul after place k in the
\* document (0: none).
RECURSIVE find_next_ul(_, _)
find_next_ul(nodes, k) ==
    IF k + 1 > Len(nodes) THEN 0
    ELSE IF nodes[k + 1].kind = "ul" THEN k + 1
    ELSE find_next_ul(nodes, k + 1)

\* The advantages section, given what select_one("div#tab-description") found.
ExtractAdvantages(tab, rest) ==
    IF tab = None THEN <<>>
    ELSE LET target_h2 == FindHeading(tab[1], 1) IN
         IF target_h2 = 0 THEN <<>>
         ELSE LET ul == find_next_ul(tab[1] \o rest, target_h2) IN
              IF ul = 0 THEN <<>>
              ELSE SelectSeq((tab[1] \o rest)[ul].items, LAMBDA txt : txt # <<>>)

\* The loop over p_list: the place of the first p, from place k on, whose
\* strong's lowered text holds the marker phrase (0: none).
RECURSIVE FindParagraph(_, _)
FindParagraph(nodes, k) ==
    IF k > Len(nodes) THEN 0
    ELSE IF /\ nodes[k].kind = "p"
            /\ nodes[k].text # None
            /\ Contains(Lower(nodes[k].text[1]), TechMarker) THEN k
    ELSE FindParagraph(nodes, k + 1)

\* The loop over the segments, which fills the dict.
RECURSIVE ParseParts(_, _)
ParseParts(segments, info) ==
    IF segments = <<>> THEN info
    ELSE LET part == Strip(Head(segments))
             part_text == Strip(part)
             key == Strip(BeforeColon(part_text))
             value == Strip(AfterColon(part_text))
         IN ParseParts(Tail(segments),
                IF part = <<>> \/ part_text = <<>> THEN info
                ELSE IF StartsWith(Lower(part_text), TechMarker) THEN info
                ELSE IF 58 \in Range(part_text) /\ key # <<>> THEN DictSet(info, key, value)
                ELSE info)

\* The technical_info section, given the description container at hand.
ExtractTechnicalInfo(tab) ==
    IF tab = None THEN <<>>
    ELSE LET target_p == FindParagraph(tab[1], 1) IN
         IF target_p = 0 THEN <<>>
         ELSE ParseParts(tab[1][target_p].items, <<>>)

\* Faulty variant of FetchFailedRecord: Empty strings where the record has None.
FetchFailedRecord_EmptyText(url) ==
    [url |-> url, title |-> Some(""), short_description |-> Some(""),
     categories |-> <<>>, tags |-> <<>>, advantages |-> <<>>, technical_info |-> <<>>]

\* The record scrape_product_details returns when fetch_html returned None.
FetchFailedRecord(url) ==
    [url |-> url, title |-> None, short_description |-> None,
     categories |-> <<>>, tags |-> <<>>, advantages |-> <<>>, technical_info |-> <<>>]

\* The record scrape_product_details builds from the page's markup when none
\* of its sections raises.
ScrapedRecord(url, doc) ==
    [url |-> url,
     title |-> doc.title_el,
     short_description |-> doc.sd_el,
     categories |-> NonEmptyTexts(doc.posted_in),
     tags |-> NonEmptyTexts(doc.tagged_as),
     advantages |-> ExtractAdvantages(doc.tab, doc.rest),
     technical_info |-> ExtractTechnicalInfo(doc.tab)]

\* The record main appends in its `except Exception` branch.
ExceptRecord(url) ==
    [url |-> url, title |-> None, short_description |-> None,
     categories |-> <<>>, tags |-> <<>>, advantages |-> <<>>, technical_info |-> <<>>]

\* ------------------------------------------------------------ JSON variant

\* scrape_product_details is not looked into.
ScrapeIdle ==
    /\ spc = "idle"
    /\ product_url = <<>>
    /\ soup = BareDoc
    /\ title = None
    /\ short_description = None
    /\ categories = <<>>
    /\ tags = <<>>
    /\ advantages = <<>>
    /\ technical_info = <<>>
    /\ desc_tab = None
    /\ desc_tab_bound = FALSE
    /\ faults = {}

\* _download_images is not running.
ImagesIdle ==
    /\ ipc = "idle"
    /\ image_urls = <<>>
    /\ files = {}
    /\ img_i = 1
    /\ relative_paths = <<>>
    /\ call = 1
    /\ image_fetches = 0
    /\ first_paths = <<>>
    /\ first_clean = TRUE

\* The CSV variant is not running.
CsvIdle ==
    /\ base_url = <<>>
    /\ cpc = "idle"
    /\ current_url = <<>>
    /\ page_index = 1
    /\ seen_links = {}
    /\ produtos = <<>>
    /\ product_links = <<>>
    /\ link_i = 1
    /\ csv = None
    /\ loads = [l \in ListingUrls |-> 0]
    /\ failed_links = {}
    /\ listing_failure = "none"
    /\ skipped_next = None

\* StartLists: what start_urls may hold (any list of listing URLs, repeats too).
StartLists == SeqsUpTo(ListingUrls, MaxStart)

InitJson ==
    /\ CsvIdle
    /\ ImagesIdle
    /\ ScrapeIdle
    /\ start_urls \in StartLists
    /\ pc = "main"
    /\ queue = <<>>
    /\ visited_listing_pages = {}
    /\ product_urls = {}
    /\ listing_url = <<>>
    /\ caller = "none"
    /\ response = "none"
    /\ html = None
    /\ found = <<>>
    /\ idx = 1
    /\ results = <<>>
    /\ sink = None
    /\ fetches = [l \in ListingUrls |-> 0]
    /\ ok_pages = {}
    /\ failed_pages = {}
    /\ linked = {}
    /\ relinked = FALSE
    /\ next_of = [l \in ListingUrls |-> <<>>]
    /\ discover_calls = 0
    /\ product_fetches = 0
    /\ fates = <<>>
    /\ delay_due = FALSE

discoverVars == <<queue, visited_listing_pages, product_urls, listing_url>>
discoverGhost == <<fetches, ok_pages, failed_pages, linked, relinked, next_of>>
fetchVars == <<caller, response, html, delay_due>>
mainVars == <<found, idx, results, sink>>
mainGhost == <<discover_calls, product_fetches, fates>>

\* main calls discover_product_urls(start_urls), which sets up its locals.
CallDiscover ==
    /\ pc = "main"
    /\ UNCHANGED notJsonVars
    /\ product_urls' = {}
    /\ visited_listing_pages' = {}
    /\ queue' = start_urls
    /\ discover_calls' = Bump(discover_calls)
    /\ pc' = "while"
    /\ UNCHANGED <<start_urls, listing_url, fetchVars, mainVars, discoverGhost,
                   product_fetches, fates>>

\* Faulty variant of MarkVisited: The URL is not recorded.
MarkVisited_Forget(visited, url) == visited

\* visited_listing_pages.add(listing_url)
MarkVisited(visited, url) == visited \cup {url}

\* Faulty variant of DequeueVisited: The visited URL is fetched again.
DequeueVisited_Refetch ==
    /\ pc = "while"
    /\ UNCHANGED notJsonVars
    /\ queue # <<>>
    /\ Head(queue) \in visited_listing_pages
    /\ listing_url' = Head(queue)
    /\ queue' = Tail(queue)
    /\ caller' = "listing"
    /\ pc' = "fetch_get"
    /\ UNCHANGED <<start_urls, visited_listing_pages, product_urls, response, html,
                   delay_due, mainVars, discoverGhost, mainGhost>>

\* `while queue:` with the popped URL already visited: `continue`.
DequeueVisited ==
    /\ pc = "while"
    /\ UNCHANGED notJsonVars
    /\ queue # <<>>
    /\ Head(queue) \in visited_listing_pages
    /\ listing_url' = Head(queue)
    /\ queue' = Tail(queue)
    /\ UNCHANGED <<start_urls, pc, visited_listing_pages, product_urls, fetchVars,
                   mainVars, discoverGhost, mainGhost>>

\* Faulty variant of DequeueNew: The URL is fetched before it is marked visited.
DequeueNew_MarkLater ==
    /\ pc = "while"
    /\ UNCHANGED notJsonVars
    /\ queue # <<>>
    /\ Head(queue) \notin visited_listing_pages
    /\ listing_url' = Head(queue)
    /\ queue' = Tail(queue)
    /\ caller' = "listing"
    /\ pc' = "fetch_get"
    /\ UNCHANGED <<start_urls, visited_listing_pages, product_urls, response, html,
                   delay_due, mainVars, discoverGhost, mainGhost>>

\* `while queue:` with a new URL: mark it visited and call fetch_html.
DequeueNew ==
    /\ pc = "while"
    /\ UNCHANGED notJsonVars
    /\ queue # <<>>
    /\ Head(queue) \notin visited_listing_pages
    /\ listing_url' = Head(queue)
    /\ queue' = Tail(queue)
    /\ visited_listing_pages' = MarkVisited(visited_listing_pages, Head(queue))
    /\ caller' = "listing"
    /\ pc' = "fetch_get"
    /\ UNCHANGED <<start_urls, product_urls, response, html, delay_due, mainVars,
                   discoverGhost, mainGhost>>

\* Where fetch_html returns to.
AfterFetch == IF caller = "listing" THEN "listing_fetched" ELSE "scrape_fetched"

\* What session.get does: a 2xx response, a response with another status, or
\* a requests.RequestException (timeout, connection error).
GetOutcomes == {"ok", "http_error", "exception"}

\* fetch_html: session.get(url, timeout=timeout).  An exception goes straight
\* to `except requests.RequestException: return None`.
FetchGet ==
    /\ pc = "fetch_get"
    /\ UNCHANGED notJsonVars
    /\ \E outcome \in GetOutcomes :
        IF outcome = "exception"
        THEN /\ response' = "none"
             /\ html' = None
             /\ pc' = AfterFetch
        ELSE /\ response' = outcome
             /\ html' = html
             /\ pc' = "fetch_sleep"
    /\ delay_due' = TRUE
    /\ IF caller = "listing"
       THEN /\ fetches' = [fetches EXCEPT ![listing_url] = Bump(@)]
            /\ UNCHANGED product_fetches
       ELSE /\ product_fetches' = Bump(product_fetches)
            /\ UNCHANGED fetches
    /\ UNCHANGED <<start_urls, discoverVars, caller, mainVars, ok_pages, failed_pages,
                   linked, relinked, next_of, discover_calls, fates>>

\* fetch_html: time.sleep, raise_for_status, return response.text (or None
\* when raise_for_status raises); its local `response` ends with the call.
FetchSleep ==
    /\ pc = "fetch_sleep"
    /\ UNCHANGED notJsonVars
    /\ html' = IF response = "ok" THEN Some("text") ELSE None
    /\ response' = "none"
    /\ delay_due' = FALSE
    /\ pc' = AfterFetch
    /\ UNCHANGED <<start_urls, discoverVars, caller, mainVars, discoverGhost, mainGhost>>

\* Faulty variant of ListingFailed: The failed page is put back for another try.
ListingFailed_Retry ==
    /\ pc = "listing_fetched"
    /\ UNCHANGED notJsonVars
    /\ html = None
    /\ failed_pages' = failed_pages \cup {listing_url}
    /\ visited_listing_pages' = visited_listing_pages \ {listing_url}
    /\ queue' = Append(queue, listing_url)
    /\ pc' = "while"
    /\ UNCHANGED <<start_urls, product_urls, listing_url, fetchVars, mainVars, fetches,
                   ok_pages, linked, relinked, next_of, mainGhost>>

\* `if html is None: continue`
ListingFailed ==
    /\ pc = "listing_fetched"
    /\ UNCHANGED notJsonVars
    /\ html = None
    /\ failed_pages' = failed_pages \cup {listing_url}
    /\ pc' = "while"
    /\ UNCHANGED <<start_urls, discoverVars, fetchVars, mainVars, fetches, ok_pages,
                   linked, relinked, next_of, mainGhost>>

\* Faulty variant of AddProductLinks: The href is added as written, not resolved.
RECURSIVE AddProductLinks_Raw(_, _, _)
AddProductLinks_Raw(urls, anchors, base) ==
    IF anchors = <<>> THEN urls
    ELSE LET href == Head(anchors) IN
         AddProductLinks_Raw(IF href = NoHref THEN urls ELSE urls \cup {href},
                             Tail(anchors), base)

\* The loop over soup.select("a.button.product_type_simple").
RECURSIVE AddProductLinks(_, _, _)
AddProductLinks(urls, anchors, base) ==
    IF anchors = <<>> THEN urls
    ELSE LET href == Head(anchors) IN
         AddProductLinks(IF href = NoHref THEN urls
                         ELSE urls \cup {absolute_url(base, href)},
                         Tail(anchors), base)

\* Faulty variant of EnqueueNext: The href is appended as written, not resolved.
EnqueueNext_Raw(q, pager, base, visited) ==
    IF pager.el /\ pager.href # NoHref /\ pager.href \notin visited
    THEN Append(q, pager.href)
    ELSE q

\* Faulty variant of EnqueueNext: The URL is appended whether visited or not.
EnqueueNext_Unchecked(q, pager, base, visited) ==
    IF pager.el /\ pager.href # NoHref
    THEN Append(q, absolute_url(base, pager.href))
    ELSE q

\* The next-page link: appended when the pager exists, has an href, and the
\* URL is not visited.
EnqueueNext(q, pager, base, visited) ==
    IF pager.el /\ pager.href # NoHref /\ absolute_url(base, pager.href) \notin visited
    THEN Append(q, absolute_url(base, pager.href))
    ELSE q

\* Ghost: the URLs a page's product anchors name, and the page its pager names.
LinksOf(anchors) == {urljoin(Origin, h) : h \in Range(anchors) \ {NoHref}}
NextOf(pager) ==
    IF pager.el /\ pager.href # NoHref THEN urljoin(Origin, pager.href) ELSE <<>>

\* The listing page was fetched: a) collect its product links.
ListingLinks ==
    /\ pc = "listing_fetched"
    /\ UNCHANGED notJsonVars
    /\ html # None
    /\ \E anchors \in ListingAnchors :
        /\ product_urls' = AddProductLinks(product_urls, anchors, listing_url)
        /\ linked' = linked \cup LinksOf(anchors)
        /\ relinked' = (relinked \/ LinksOf(anchors) \cap linked # {})
    /\ ok_pages' = ok_pages \cup {listing_url}
    /\ pc' = "listing_next"
    /\ UNCHANGED <<start_urls, queue, visited_listing_pages, listing_url, fetchVars,
                   mainVars, fetches, failed_pages, next_of, mainGhost>>

\* b) find its next page.
ListingNext ==
    /\ pc = "listing_next"
    /\ UNCHANGED notJsonVars
    /\ \E pager \in Pagers :
        /\ queue' = EnqueueNext(queue, pager, listing_url, visited_listing_pages)
        /\ next_of' = [next_of EXCEPT ![listing_url] = NextOf(pager)]
    /\ pc' = "while"
    /\ UNCHANGED <<start_urls, visited_listing_pages, product_urls, listing_url, fetchVars,
                   mainVars, fetches, ok_pages, failed_pages, linked, relinked, mainGhost>>

\* `return sorted(product_urls)`, and main starts its loop over the list.
DiscoverReturn ==
    /\ pc = "while"
    /\ UNCHANGED notJsonVars
    /\ queue = <<>>
    /\ found' = sorted(product_urls)
    /\ idx' = 1
    /\ pc' = "for"
    /\ UNCHANGED <<start_urls, discoverVars, fetchVars, results, sink, discoverGhost,
                   mainGhost>>

\* main's `for idx, url in enumerate(product_urls, start=1)`: the next URL, for
\* which scrape_product_details calls fetch_html.
ForNext ==
    /\ pc = "for"
    /\ UNCHANGED notJsonVars
    /\ idx <= Len(found)
    /\ caller' = "product"
    /\ pc' = "fetch_get"
    /\ UNCHANGED <<start_urls, discoverVars, response, html, delay_due, mainVars,
                   discoverGhost, mainGhost>>

\* scrape_product_details with html None: its first return, appended by main.
ScrapeFetchFailed ==
    /\ pc = "scrape_fetched"
    /\ UNCHANGED notJsonVars
    /\ html = None
    /\ results' = Append(results, FetchFailedRecord(found[idx]))
    /\ fates' = Append(fates, "fetch_failed")
    /\ idx' = idx + 1
    /\ pc' = "for"
    /\ UNCHANGED <<start_urls, discoverVars, fetchVars, found, sink, discoverGhost,
                   discover_calls, product_fetches>>

\* Faulty variant of ScrapeRaises: The item is skipped: nothing is appended.
ScrapeRaises_Skip ==
    /\ pc = "scrape_fetched"
    /\ UNCHANGED notJsonVars
    /\ html # None
    /\ idx' = idx + 1
    /\ pc' = "for"
    /\ UNCHANGED <<start_urls, discoverVars, fetchVars, found, results, sink,
                   discoverGhost, mainGhost>>

\* scrape_product_details raises outside its guarded sections (building the
\* soup): main's `except Exception` appends its record.
ScrapeRaises ==
    /\ pc = "scrape_fetched"
    /\ UNCHANGED notJsonVars
    /\ html # None
    /\ results' = Append(results, ExceptRecord(found[idx]))
    /\ fates' = Append(fates, "raised")
    /\ idx' = idx + 1
    /\ pc' = "for"
    /\ UNCHANGED <<start_urls, discoverVars, fetchVars, found, sink, discoverGhost,
                   discover_calls, product_fetches>>

\* scrape_product_details returns the record of the page's markup.
ScrapeOk ==
    /\ pc = "scrape_fetched"
    /\ UNCHANGED notJsonVars
    /\ html # None
    /\ \E doc \in ProductDocs :
        results' = Append(results, ScrapedRecord(found[idx], doc))
    /\ fates' = Append(fates, "ok")
    /\ idx' = idx + 1
    /\ pc' = "for"
    /\ UNCHANGED <<start_urls, discoverVars, fetchVars, found, sink, discoverGhost,
                   discover_calls, product_fetches>>

\* The loop is over.
ForDone ==
    /\ pc = "for"
    /\ UNCHANGED notJsonVars
    /\ idx > Len(found)
    /\ pc' = "save"
    /\ UNCHANGED <<start_urls, discoverVars, fetchVars, mainVars, discoverGhost, mainGhost>>

\* json.dump(results, f): the file holds the list.
SaveJson ==
    /\ pc = "save"
    /\ UNCHANGED notJsonVars
    /\ sink' = Some(results)
    /\ pc' = "done"
    /\ UNCHANGED <<start_urls, discoverVars, fetchVars, found, idx, results,
                   discoverGhost, mainGhost>>

\* open(output_file, "w") raises (the path is not writable): main has no handler.
SaveFails ==
    /\ pc = "save"
    /\ UNCHANGED notJsonVars
    /\ pc' = "aborted"
    /\ UNCHANGED <<start_urls, discoverVars, fetchVars, mainVars, discoverGhost, mainGhost>>

JsonNext ==
    \/ CallDiscover
    \/ DequeueVisited
    \/ DequeueNew
    \/ FetchGet
    \/ FetchSleep
    \/ ListingFailed
    \/ ListingLinks
    \/ ListingNext
    \/ DiscoverReturn
    \/ ForNext
    \/ ScrapeFetchFailed
    \/ ScrapeRaises
    \/ ScrapeOk
    \/ ForDone
    \/ SaveJson
    \/ SaveFails

\* discover_product_urls alone, from its call to its return.
DiscoverNext ==
    \/ CallDiscover
    \/ DequeueVisited
    \/ DequeueNew
    \/ FetchGet
    \/ FetchSleep
    \/ ListingFailed
    \/ ListingLinks
    \/ ListingNext
    \/ DiscoverReturn

\* The program is sequential: whenever a statement can run, it does.
SpecDiscover == InitJson /\ [][DiscoverNext]_vars /\ WF_vars(DiscoverNext)

SpecJson == InitJson /\ [][JsonNext]_vars /\ WF_vars(JsonNext)

\* ------------------------------------------------------------- CSV variant

\* list(dict.fromkeys(items)): each item once, at its first place.
RECURSIVE Dedup(_)
Dedup(items) ==
    IF items = <<>> THEN <<>>
    ELSE LET rest == Dedup(SubSeq(items, 1, Len(items) - 1))
             last == items[Len(items)]
         IN IF last \in Range(rest) THEN rest ELSE Append(rest, last)

\* A page of the site that is no product page (its URL lacks "/produto/").
OtherUrl == Origin \o <<47, 115>>

\* `"/produto/" in href`: of the model's URLs, the product URLs hold it.
HasProductMarker(href) == href \in ProductUrls

\* The anchors inside li.product of a listing page, in document order: the
\* href, and whether the anchor has the class woocommerce-LoopProduct-link or
\* woocommerce-loop-product__link (loop).
CardAnchors == [href : ProductUrls \cup {OtherUrl, NoHref}, loop : BOOLEAN]
ListingCards == SeqsUpTo(CardAnchors, MaxLinks)

\* What select_one("a.next, li.next a, a.page-numbers.next") finds: whether an
\* element exists, and its href.
CsvPagers == {[el |-> FALSE, href |-> NoHref]}
             \cup {[el |-> TRUE, href |-> h] : h \in ListingUrls \cup {NoHref}}

Hrefs(anchors) == [i \in 1..Len(anchors) |-> anchors[i].href]

\* _parse_product_links: the hrefs of the loop anchors or, when there are
\* none, of the card anchors that name a product; each once.
_parse_product_links(cards) ==
    LET links == Hrefs(SelectSeq(cards, LAMBDA c : c.loop /\ c.href # NoHref))
        fallback == Hrefs(SelectSeq(cards, LAMBDA c : c.href # NoHref /\ HasProductMarker(c.href)))
    IN Dedup(IF links = <<>> THEN fallback ELSE links)

\* _get_next_page: the href as written, or None.
_get_next_page(pager) == IF pager.el /\ pager.href # NoHref THEN pager.href ELSE None

\* The markup of a product page, by the elements _extract_product_details
\* selects (None where select_one finds nothing):
\*   h2_title, h1_title, h1   texts of h2.product_title.entry-title,
\*                            h1.product_title and h1
\*   sku_el                   text of .sku
\*   meta                     whether div.product_meta exists
\*   posted_in, marca         anchor texts of span.posted_in and of the first
\*                            span of the meta holding "Marca"
\*   breadcrumbs              anchor texts of nav.woocommerce-breadcrumb
\*   short_desc, long_desc    texts of the two description containers
\*   images                   data-src or src of the gallery images
CsvBareDoc ==
    [h2_title |-> None, h1_title |-> None, h1 |-> None, sku_el |-> None, meta |-> FALSE,
     posted_in |-> <<>>, marca |-> <<>>, breadcrumbs |-> <<>>, short_desc |-> None,
     long_desc |-> None, images |-> <<>>]

CsvFullDoc ==
    [h2_title |-> None, h1_title |-> Some("Vinil"), h1 |-> Some("Loja"),
     sku_el |-> Some("VS-1"), meta |-> TRUE, posted_in |-> <<"Estamparia", "">>,
     marca |-> <<"Avery", "Avery">>, breadcrumbs |-> <<"Home", "Estamparia">>,
     short_desc |-> Some(""), long_desc |-> Some("Vinil de recorte"),
     images |-> <<"a.jpg", "", "a.jpg">>]

CsvProductDocs == {CsvBareDoc, CsvFullDoc}

NonEmpty(texts) == SelectSeq(texts, LAMBDA t : t # "")

\* `A or B or C` of three select_one results: the first that is not None.
FirstFound(a, b, c) == IF a # None THEN a ELSE IF b # None THEN b ELSE c

TextOr(el, default) == IF el = None THEN default ELSE el[1]

\* _extract_product_details: the Produto (imagens still empty) and the image
\* URLs.  A joined string is held as the list of its parts.
_extract_product_details(doc, url) ==
    LET categorias == IF doc.meta THEN NonEmpty(doc.posted_in) ELSE <<>>
        parts == (IF doc.short_desc = None THEN <<>> ELSE <<doc.short_desc[1]>>)
                 \o (IF doc.long_desc = None THEN <<>> ELSE <<doc.long_desc[1]>>)
    IN [produto |->
            [nome |-> TextOr(FirstFound(doc.h2_title, doc.h1_title, doc.h1), ""),
             sku |-> TextOr(doc.sku_el, ""),
             categoria |-> IF categorias # <<>> THEN categorias ELSE NonEmpty(doc.breadcrumbs),
             marca |-> IF doc.meta THEN Dedup(NonEmpty(doc.marca)) ELSE <<>>,
             descricao |-> NonEmpty(parts),
             imagens |-> <<>>,
             url |-> url],
        image_urls |-> Dedup(NonEmpty(doc.images))]

\* The subsequences of a list: _download_images returns the paths of the
\* images it stored or found stored, and leaves out each one that raised.
RECURSIVE SubLists(_)
SubLists(items) ==
    IF items = <<>> THEN {<<>>}
    ELSE LET rest == SubLists(Tail(items))
         IN rest \cup {<<Head(items)>> \o r : r \in rest}

\* The JSON variant is not running.
JsonIdle ==
    /\ start_urls = <<>>
    /\ pc = "idle"
    /\ queue = <<>>
    /\ visited_listing_pages = {}
    /\ product_urls = {}
    /\ listing_url = <<>>
    /\ caller = "none"
    /\ response = "none"
    /\ html = None
    /\ found = <<>>
    /\ idx = 1
    /\ results = <<>>
    /\ sink = None
    /\ fetches = [l \in ListingUrls |-> 0]
    /\ ok_pages = {}
    /\ failed_pages = {}
    /\ linked = {}
    /\ relinked = FALSE
    /\ next_of = [l \in ListingUrls |-> <<>>]
    /\ discover_calls = 0
    /\ product_fetches = 0
    /\ fates = <<>>
    /\ delay_due = FALSE

\* VinilSulScraper(base_url=...), before run.
InitCsv ==
    /\ JsonIdle
    /\ ImagesIdle
    /\ ScrapeIdle
    /\ base_url \in ListingUrls
    /\ cpc = "run"
    /\ current_url = <<>>
    /\ page_index = 1
    /\ seen_links = {}
    /\ produtos = <<>>
    /\ product_links = <<>>
    /\ link_i = 1
    /\ csv = None
    /\ loads = [l \in ListingUrls |-> 0]
    /\ failed_links = {}
    /\ listing_failure = "none"
    /\ skipped_next = None

\* run: the locals, the browser, and `current_url = self.base_url`.
RunStart ==
    /\ cpc = "run"
    /\ UNCHANGED notCsvVars
    /\ produtos' = <<>>
    /\ seen_links' = {}
    /\ current_url' = base_url
    /\ page_index' = 1
    /\ cpc' = "goto"
    /\ UNCHANGED <<base_url, product_links, link_i, csv, loads, failed_links, listing_failure, skipped_next>>

\* What page.goto does: the page loads (whatever its status: goto does not
\* raise on a 4xx or 5xx answer), the load times out (PlaywrightTimeoutError),
\* or it fails otherwise (another playwright Error: connection refused, ...).
GotoOutcomes == {"loaded", "bad_status", "timeout", "error"}

\* `while current_url:` and page.goto(current_url) in its try, whose only
\* handler is `except PlaywrightTimeoutError: break`.
GotoListing ==
    /\ cpc = "goto"
    /\ UNCHANGED notCsvVars
    /\ loads' = [loads EXCEPT ![current_url] = Bump(@)]
    /\ \E outcome \in GotoOutcomes :
        CASE outcome = "timeout" ->
                /\ listing_failure' = "timeout"
                /\ cpc' = "close"
          [] outcome = "error" ->
                /\ listing_failure' = "error"
                /\ cpc' = "crashed"
          [] OTHER ->
                /\ listing_failure' = listing_failure
                /\ cpc' = "parse"
    /\ UNCHANGED <<base_url, current_url, page_index, seen_links, produtos, product_links,
                   link_i, csv, failed_links, skipped_next>>

\* html = page.content(); product_links = self._parse_product_links(html);
\* `if not product_links: break`, which leaves the page's next-page link
\* (whatever the markup holds there) unread.
ParseListing ==
    /\ cpc = "parse"
    /\ UNCHANGED notCsvVars
    /\ \E cards \in ListingCards :
        /\ product_links' = _parse_product_links(cards)
        /\ IF _parse_product_links(cards) = <<>>
           THEN /\ cpc' = "close"
                /\ \E pager \in CsvPagers : skipped_next' = _get_next_page(pager)
           ELSE /\ cpc' = "links"
                /\ skipped_next' = skipped_next
    /\ link_i' = 1
    /\ UNCHANGED <<base_url, current_url, page_index, seen_links, produtos, csv, loads,
                   failed_links, listing_failure>>

\* `if link in seen_links: continue`
LinkSeen ==
    /\ cpc = "links"
    /\ UNCHANGED notCsvVars
    /\ link_i <= Len(product_links)
    /\ product_links[link_i] \in seen_links
    /\ link_i' = link_i + 1
    /\ UNCHANGED <<base_url, cpc, current_url, page_index, seen_links, produtos,
                   product_links, csv, loads, failed_links, listing_failure, skipped_next>>

\* Faulty variant of LinkExtracted: The link is not added to seen_links.
LinkExtracted_Unrecorded ==
    /\ cpc = "links"
    /\ UNCHANGED notCsvVars
    /\ link_i <= Len(product_links)
    /\ product_links[link_i] \notin seen_links
    /\ \E doc \in CsvProductDocs :
        LET got == _extract_product_details(doc, product_links[link_i]) IN
        \E imagens_rel \in SubLists(got.image_urls) :
            produtos' = Append(produtos, [got.produto EXCEPT !.imagens = imagens_rel])
    /\ link_i' = link_i + 1
    /\ UNCHANGED <<base_url, cpc, current_url, page_index, seen_links, product_links, csv,
                   loads, failed_links, listing_failure, skipped_next>>

\* A new link whose try block runs to its end: the page loads, the details
\* are extracted, the images stored, and the Produto appended.
LinkExtracted ==
    /\ cpc = "links"
    /\ UNCHANGED notCsvVars
    /\ link_i <= Len(product_links)
    /\ product_links[link_i] \notin seen_links
    /\ seen_links' = seen_links \cup {product_links[link_i]}
    /\ \E doc \in CsvProductDocs :
        LET got == _extract_product_details(doc, product_links[link_i]) IN
        \E imagens_rel \in SubLists(got.image_urls) :
            produtos' = Append(produtos, [got.produto EXCEPT !.imagens = imagens_rel])
    /\ link_i' = link_i + 1
    /\ UNCHANGED <<base_url, cpc, current_url, page_index, product_links, csv, loads,
                   failed_links, listing_failure, skipped_next>>

\* A new link whose try block raises (page.goto, the extraction or the image
\* directory): `except Exception` prints, and `continue`.
LinkFails ==
    /\ cpc = "links"
    /\ UNCHANGED notCsvVars
    /\ link_i <= Len(product_links)
    /\ product_links[link_i] \notin seen_links
    /\ seen_links' = seen_links \cup {product_links[link_i]}
    /\ failed_links' = failed_links \cup {product_links[link_i]}
    /\ link_i' = link_i + 1
    /\ UNCHANGED <<base_url, cpc, current_url, page_index, produtos, product_links, csv,
                   loads, listing_failure, skipped_next>>

\* The for loop is over: next_url = self._get_next_page(html), read from the
\* same markup; `if not next_url or next_url == current_url: break`.
NextPage ==
    /\ cpc = "links"
    /\ UNCHANGED notCsvVars
    /\ link_i > Len(product_links)
    /\ \E pager \in CsvPagers :
        LET next_url == _get_next_page(pager) IN
        IF next_url = None \/ next_url = current_url
        THEN /\ cpc' = "close"
             /\ UNCHANGED <<current_url, page_index>>
        ELSE /\ current_url' = next_url
             /\ page_index' = Bump(page_index)
             /\ cpc' = "goto"
    /\ UNCHANGED <<base_url, seen_links, produtos, product_links, link_i, csv, loads,
                   failed_links, listing_failure, skipped_next>>

\* After the loop: browser.close(), and self._write_csv(produtos).
WriteCsv ==
    /\ cpc = "close"
    /\ UNCHANGED notCsvVars
    /\ csv' = Some(produtos)
    /\ cpc' = "done"
    /\ UNCHANGED <<base_url, current_url, page_index, seen_links, produtos, product_links,
                   link_i, loads, failed_links, listing_failure, skipped_next>>

\* open(self.output_csv, "w") raises: run has no handler.
WriteCsvFails ==
    /\ cpc = "close"
    /\ UNCHANGED notCsvVars
    /\ cpc' = "sink_failed"
    /\ UNCHANGED <<base_url, current_url, page_index, seen_links, produtos, product_links,
                   link_i, csv, loads, failed_links, listing_failure, skipped_next>>

CsvNext ==
    \/ RunStart
    \/ GotoListing
    \/ ParseListing
    \/ LinkSeen
    \/ LinkExtracted
    \/ LinkFails
    \/ NextPage
    \/ WriteCsv
    \/ WriteCsvFails

\* The program is sequential: whenever a statement can run, it does.
SpecCsv == InitCsv /\ [][CsvNext]_vars /\ WF_vars(CsvNext)

\* -------------------------------------------------------- _download_images

\* Most entries of image_urls.
MaxImages == 2

\* The image URLs of the model, on the site "h:":
\*   "h:/a.j", "h:/d/a.j"  two URLs whose path ends in the same name
\*   "h:/b"                a name without a dot
\*   "h:/"                 no name
\*   "h:/a%.j"             a name with a character outside [\w.-]
ImageUrls ==
    {Origin \o <<47, 97, 46, 106>>,
     Origin \o <<47, 100, 47, 97, 46, 106>>,
     Origin \o <<47, 98>>,
     Origin \o <<47>>,
     Origin \o <<47, 97, 37, 46, 106>>}

\* image_urls as run passes it: _extract_product_details has removed the
\* repeats (and the list may be empty).
ImageLists == {l \in SeqsUpTo(ImageUrls, MaxImages) : Dedup(l) = l}

\* urlparse(url).path, of a URL of the site.
UrlPath(url) == SubSeq(url, Len(Origin) + 1, Len(url))

\* Path(path).name: the trailing slashes go, and the name is what follows the
\* last slash that is left.
LastSegment(path) ==
    LET trimmed == CHOOSE k \in 0..Len(path) :
                       /\ \A i \in (k + 1)..Len(path) : path[i] = 47
                       /\ k = 0 \/ path[k] # 47
        start == CHOOSE k \in 0..trimmed :
                       /\ \A i \in (k + 1)..trimmed : path[i] # 47
                       /\ k = 0 \/ path[k] = 47
    IN SubSeq(path, start + 1, trimmed)

\* re.sub(r"[^\w.\-]", "_", name): letters, digits, "_", "." and "-" stay.
Sanitized(name) ==
    [i \in 1..Len(name) |->
        IF \/ name[i] \in 48..57 \/ name[i] \in 65..90 \/ name[i] \in 97..122
           \/ name[i] \in {95, 46, 45}
        THEN name[i] ELSE 95]

\* ".jpg", and "imagem_<index>.jpg".
DotJpg == <<46, 106, 112, 103>>
ImagemName(index) == <<105, 109, 97, 103, 101, 109, 95>> \o Digits(index) \o DotJpg

_filename_from_url(url, index) ==
    LET name == LastSegment(UrlPath(url)) IN
    IF name = <<>> THEN ImagemName(index)
    ELSE Sanitized(IF 46 \in Range(name) THEN name ELSE name \o DotJpg)

\* The names _download_images can give the files of a list.
FileNames == {_filename_from_url(u, i) : u \in ImageUrls, i \in 1..MaxImages}

\* _download_images(image_urls, product_name, product_url) is about to be
\* called; product_dir may hold files of an earlier run.  The product's name
\* and URL, hence product_dir, are the same in both calls.
InitImages ==
    /\ JsonIdle
    /\ CsvIdle
    /\ ScrapeIdle
    /\ ipc = "call"
    /\ image_urls \in ImageLists
    /\ files \in SUBSET FileNames
    /\ img_i = 1
    /\ relative_paths = <<>>
    /\ call = 1
    /\ image_fetches = 0
    /\ first_paths = <<>>
    /\ first_clean = TRUE

\* `if not image_urls: return []`
DownloadNothing ==
    /\ ipc = "call"
    /\ UNCHANGED notImageVars
    /\ image_urls = <<>>
    /\ relative_paths' = <<>>
    /\ ipc' = "returned"
    /\ UNCHANGED <<image_urls, files, img_i, call, image_fetches, first_paths, first_clean>>

\* product_dir.mkdir(parents=True, exist_ok=True), and the loop's locals.
DownloadStart ==
    /\ ipc = "call"
    /\ UNCHANGED notImageVars
    /\ image_urls # <<>>
    /\ relative_paths' = <<>>
    /\ img_i' = 1
    /\ ipc' = "loop"
    /\ UNCHANGED <<image_urls, files, call, image_fetches, first_paths, first_clean>>

\* mkdir raises (no permission, a file in the way): the method has no
\* handler there.
MkdirFails ==
    /\ ipc = "call"
    /\ UNCHANGED notImageVars
    /\ image_urls # <<>>
    /\ ipc' = "raised"
    /\ first_clean' = (first_clean /\ call # 1)
    /\ UNCHANGED <<image_urls, files, img_i, relative_paths, call, image_fetches, first_paths>>

\* Faulty variant of FileExists: The file is taken to be missing.
FileExists_Never(names, filename) == FALSE

\* file_path.exists()
FileExists(names, filename) == filename \in names

\* The file is there: no request, and the path is appended.
ImageKept ==
    /\ ipc = "loop"
    /\ UNCHANGED notImageVars
    /\ img_i <= Len(image_urls)
    /\ FileExists(files, _filename_from_url(image_urls[img_i], img_i))
    /\ relative_paths' = Append(relative_paths, _filename_from_url(image_urls[img_i], img_i))
    /\ img_i' = img_i + 1
    /\ UNCHANGED <<ipc, image_urls, files, call, image_fetches, first_paths, first_clean>>

\* The file is missing: requests.get, raise_for_status, the file written, and
\* the path appended.
ImageStored ==
    /\ ipc = "loop"
    /\ UNCHANGED notImageVars
    /\ img_i <= Len(image_urls)
    /\ ~FileExists(files, _filename_from_url(image_urls[img_i], img_i))
    /\ image_fetches' = Bump(image_fetches)
    /\ files' = files \cup {_filename_from_url(image_urls[img_i], img_i)}
    /\ relative_paths' = Append(relative_paths, _filename_from_url(image_urls[img_i], img_i))
    /\ img_i' = img_i + 1
    /\ UNCHANGED <<ipc, image_urls, call, first_paths, first_clean>>

\* The file is missing and the download raises, before the file is opened
\* (the request, the status) or after (a chunk, the write), which leaves
\* the file: `except Exception` prints, and no path is appended.
ImageFails ==
    /\ ipc = "loop"
    /\ UNCHANGED notImageVars
    /\ img_i <= Len(image_urls)
    /\ ~FileExists(files, _filename_from_url(image_urls[img_i], img_i))
    /\ image_fetches' = Bump(image_fetches)
    /\ \E opened \in BOOLEAN :
        files' = IF opened THEN files \cup {_filename_from_url(image_urls[img_i], img_i)}
                 ELSE files
    /\ first_clean' = (first_clean /\ call # 1)
    /\ img_i' = img_i + 1
    /\ UNCHANGED <<ipc, image_urls, relative_paths, call, first_paths>>

\* `return relative_paths`
DownloadReturn ==
    /\ ipc = "loop"
    /\ UNCHANGED notImageVars
    /\ img_i > Len(image_urls)
    /\ ipc' = "returned"
    /\ UNCHANGED <<image_urls, files, img_i, relative_paths, call, image_fetches,
                   first_paths, first_clean>>

\* _download_images is called again with the same arguments.
DownloadAgain ==
    /\ ipc = "returned"
    /\ UNCHANGED notImageVars
    /\ call = 1
    /\ call' = 2
    /\ first_paths' = relative_paths
    /\ image_fetches' = 0
    /\ img_i' = 1
    /\ relative_paths' = <<>>
    /\ ipc' = "call"
    /\ UNCHANGED <<image_urls, files, first_clean>>

ImagesNext ==
    \/ DownloadNothing
    \/ DownloadStart
    \/ MkdirFails
    \/ ImageKept
    \/ ImageStored
    \/ ImageFails
    \/ DownloadReturn
    \/ DownloadAgain

SpecImages == InitImages /\ [][ImagesNext]_vars /\ WF_vars(ImagesNext)

\* -------------------------------------------------- scrape_product_details

\* The headings and lists of the descriptions: "V", "xv", "x"; no item,
\* the items "a", "", "b", and the item "b".
TabNodes ==
    {H2(<<86>>), H2(<<120, 118>>), H2(<<120>>),
     Ul(<<>>), Ul(<< <<97>>, <<>>, <<98>> >>), Ul(<< <<98>> >>)}

\* Pages whose description is a list of such nodes, some of them inside
\* div#tab-description and the others after it, or all outside of any.
TabDocs ==
    UNION {{[BareDoc EXCEPT !.tab = Some(SubSeq(nodes, 1, k)),
                            !.rest = SubSeq(nodes, k + 1, Len(nodes))] :
                k \in 0..Len(nodes)} :
            nodes \in SeqsUpTo(TabNodes, MaxNodes)}
    \cup {[BareDoc EXCEPT !.rest = nodes] : nodes \in SeqsUpTo(TabNodes, MaxNodes)}

\* The segments of the technical paragraph:
\*   "", " "             nothing, a blank
\*   "M:", "m: a"        the title line; a line that starts with the marker
\*   "a:a", " a : b "    a key and a value; with blanks around both
\*   "b:a"               another key
\*   "a"                 no colon
\*   "a:m"               the marker after the colon
\*   ":a"                nothing before the colon
\*   "a::"               two colons
PartTexts ==
    {<<>>, <<32>>, <<77, 58>>, <<109, 58, 32, 97>>, <<97, 58, 97>>,
     <<32, 97, 32, 58, 32, 98, 32>>, <<98, 58, 97>>, <<97>>, <<97, 58, 109>>,
     <<58, 97>>, <<97, 58, 58>>}

\* What may precede the technical paragraph: nothing, or a paragraph whose
\* strong is not the lead-in.
ParPrefixes == {<<>>, <<P(Some(<<120>>), << <<98, 58, 98>> >>)>>}

\* Pages with a technical paragraph (strong "M:") of any segments.  A line
\* break may fall inside the strong element, so no segment has to hold the
\* lead-in.
ParDocs ==
    {[BareDoc EXCEPT !.tab = Some(prefix \o <<P(Some(<<77, 58>>), segments)>>)] :
        prefix \in ParPrefixes, segments \in SeqsUpTo(PartTexts, MaxParts)}

FieldDocs == TabDocs \cup ParDocs

\* fetch_html has returned the page's markup; the locals are not assigned yet.
ScrapeLocalsUnset ==
    /\ title = None
    /\ short_description = None
    /\ categories = <<>>
    /\ tags = <<>>
    /\ advantages = <<>>
    /\ technical_info = <<>>
    /\ desc_tab = None
    /\ desc_tab_bound = FALSE
    /\ faults = {}

InitScrape ==
    /\ JsonIdle
    /\ CsvIdle
    /\ ImagesIdle
    /\ spc = "soup"
    /\ product_url \in ProductUrls
    /\ soup \in ProductDocs
    /\ ScrapeLocalsUnset

InitFields ==
    /\ JsonIdle
    /\ CsvIdle
    /\ ImagesIdle
    /\ spc = "soup"
    /\ product_url = Origin \o ProductPath(1)
    /\ soup \in FieldDocs
    /\ ScrapeLocalsUnset

\* soup = BeautifulSoup(html, "lxml")
BuildSoup ==
    /\ spc = "soup"
    /\ UNCHANGED notScrapeVars
    /\ spc' = "title"
    /\ UNCHANGED <<product_url, soup, title, short_description, categories, tags,
                   advantages, technical_info, desc_tab, desc_tab_bound, faults>>

\* BeautifulSoup raises (the tree builder rejects the markup, or is missing):
\* the statement is in no try block.
SoupRaises ==
    /\ spc = "soup"
    /\ UNCHANGED notScrapeVars
    /\ spc' = "raised"
    /\ UNCHANGED <<product_url, soup, title, short_description, categories, tags,
                   advantages, technical_info, desc_tab, desc_tab_bound, faults>>

\* title
TitleStep ==
    /\ spc = "title"
    /\ UNCHANGED notScrapeVars
    /\ title' = soup.title_el
    /\ spc' = "short_description"
    /\ UNCHANGED <<product_url, soup, short_description, categories, tags, advantages,
                   technical_info, desc_tab, desc_tab_bound, faults>>

\* title: the try block raises.
TitleFault ==
    /\ spc = "title"
    /\ UNCHANGED notScrapeVars
    /\ title' = None
    /\ faults' = faults \cup {"title"}
    /\ spc' = "short_description"
    /\ UNCHANGED <<product_url, soup, short_description, categories, tags, advantages,
                   technical_info, desc_tab, desc_tab_bound>>

\* short_description
ShortDescriptionStep ==
    /\ spc = "short_description"
    /\ UNCHANGED notScrapeVars
    /\ short_description' = soup.sd_el
    /\ spc' = "categories"
    /\ UNCHANGED <<product_url, soup, title, categories, tags, advantages, technical_info,
                   desc_tab, desc_tab_bound, faults>>

ShortDescriptionFault ==
    /\ spc = "short_description"
    /\ UNCHANGED notScrapeVars
    /\ short_description' = None
    /\ faults' = faults \cup {"short_description"}
    /\ spc' = "categories"
    /\ UNCHANGED <<product_url, soup, title, categories, tags, advantages, technical_info,
                   desc_tab, desc_tab_bound>>

\* categories
CategoriesStep ==
    /\ spc = "categories"
    /\ UNCHANGED notScrapeVars
    /\ categories' = NonEmptyTexts(soup.posted_in)
    /\ spc' = "tags"
    /\ UNCHANGED <<product_url, soup, title, short_description, tags, advantages,
                   technical_info, desc_tab, desc_tab_bound, faults>>

\* categories: the try block raises, wherever in its loop: `categories = []`.
CategoriesFault ==
    /\ spc = "categories"
    /\ UNCHANGED notScrapeVars
    /\ categories' = <<>>
    /\ faults' = faults \cup {"categories"}
    /\ spc' = "tags"
    /\ UNCHANGED <<product_url, soup, title, short_description, tags, advantages,
                   technical_info, desc_tab, desc_tab_bound>>

\* tags
TagsStep ==
    /\ spc = "tags"
    /\ UNCHANGED notScrapeVars
    /\ tags' = NonEmptyTexts(soup.tagged_as)
    /\ spc' = "advantages"
    /\ UNCHANGED <<product_url, soup, title, short_description, categories, advantages,
                   technical_info, desc_tab, desc_tab_bound, faults>>

TagsFault ==
    /\ spc = "tags"
    /\ UNCHANGED notScrapeVars
    /\ tags' = <<>>
    /\ faults' = faults \cup {"tags"}
    /\ spc' = "advantages"
    /\ UNCHANGED <<product_url, soup, title, short_description, categories, advantages,
                   technical_info, desc_tab, desc_tab_bound>>

\* advantages: desc_tab is assigned, and the list is built.
AdvantagesStep ==
    /\ spc = "advantages"
    /\ UNCHANGED notScrapeVars
    /\ desc_tab' = soup.tab
    /\ desc_tab_bound' = TRUE
    /\ advantages' = ExtractAdvantages(soup.tab, soup.rest)
    /\ spc' = "technical_info"
    /\ UNCHANGED <<product_url, soup, title, short_description, categories, tags,
                   technical_info, faults>>

\* advantages: the try block raises, in select_one("div#tab-description"),
\* which leaves desc_tab unassigned, or after it.
AdvantagesFault ==
    /\ spc = "advantages"
    /\ UNCHANGED notScrapeVars
    /\ \E located \in BOOLEAN :
        /\ desc_tab_bound' = located
        /\ desc_tab' = IF located THEN soup.tab ELSE desc_tab
    /\ advantages' = <<>>
    /\ faults' = faults \cup {"advantages"}
    /\ spc' = "technical_info"
    /\ UNCHANGED <<product_url, soup, title, short_description, categories, tags,
                   technical_info>>

\* technical_info: `desc_tab = desc_tab or soup.select_one(...)` reads the
\* local desc_tab; when it is unassigned this raises UnboundLocalError, which
\* the section's own `except Exception` turns into `technical_info = {}`.
TechnicalInfoStep ==
    /\ spc = "technical_info"
    /\ UNCHANGED notScrapeVars
    /\ IF desc_tab_bound
       THEN /\ desc_tab' = IF desc_tab # None THEN desc_tab ELSE soup.tab
            /\ technical_info' = ExtractTechnicalInfo(IF desc_tab # None THEN desc_tab
                                                      ELSE soup.tab)
       ELSE /\ desc_tab' = desc_tab
            /\ technical_info' = <<>>
    /\ spc' = "return"
    /\ UNCHANGED <<product_url, soup, title, short_description, categories, tags,
                   advantages, desc_tab_bound, faults>>

\* technical_info: the try block raises on the markup.
TechnicalInfoFault ==
    /\ spc = "technical_info"
    /\ UNCHANGED notScrapeVars
    /\ technical_info' = <<>>
    /\ faults' = faults \cup {"technical_info"}
    /\ spc' = "return"
    /\ UNCHANGED <<product_url, soup, title, short_description, categories, tags,
                   advantages, desc_tab, desc_tab_bound>>

\* The dict the function returns.
ReturnedRecord ==
    [url |-> product_url, title |-> title, short_description |-> short_description,
     categories |-> categories, tags |-> tags, advantages |-> advantages,
     technical_info |-> technical_info]

\* `return {...}`
ScrapeReturn ==
    /\ spc = "return"
    /\ UNCHANGED notScrapeVars
    /\ spc' = "returned"
    /\ UNCHANGED <<product_url, soup, title, short_description, categories, tags,
                   advantages, technical_info, desc_tab, desc_tab_bound, faults>>

\* The sections when nothing raises.
FieldsNext ==
    \/ BuildSoup
    \/ TitleStep
    \/ ShortDescriptionStep
    \/ CategoriesStep
    \/ TagsStep
    \/ AdvantagesStep
    \/ TechnicalInfoStep
    \/ ScrapeReturn

ScrapeNext ==
    \/ BuildSoup
    \/ SoupRaises
    \/ TitleStep
    \/ TitleFault
    \/ ShortDescriptionStep
    \/ ShortDescriptionFault
    \/ CategoriesStep
    \/ CategoriesFault
    \/ TagsStep
    \/ TagsFault
    \/ AdvantagesStep
    \/ AdvantagesFault
    \/ TechnicalInfoStep
    \/ TechnicalInfoFault
    \/ ScrapeReturn

\* scrape_product_details on the pages of ProductDocs, any section raising.
SpecScrape == InitScrape /\ [][ScrapeNext]_vars /\ WF_vars(ScrapeNext)

\* scrape_product_details on the pages of FieldDocs, no section raising.
SpecFields == InitFields /\ [][FieldsNext]_vars /\ WF_vars(FieldsNext)

\* =================================================================== claims

\* discover_product_urls is running / has returned.
InDiscover ==
    \/ pc \in {"while", "listing_fetched", "listing_next"}
    \/ pc \in {"fetch_get", "fetch_sleep"} /\ caller = "listing"
Returned == pc # "main" /\ ~InDiscover

\* The listing pages reachable from the URLs of S by the next-page links of
\* the pages that were fetched: the least set that holds S and, with a page
\* of ok_pages, the page its markup names as next.
RECURSIVE Reach(_)
Reach(S) ==
    LET more == {next_of[l] : l \in S \cap ok_pages} \ {<<>>}
    IN IF more \subseteq S THEN S ELSE Reach(S \cup more)

\* Lexicographic order, stated on positions: a and b agree on their first k
\* code points, and there a ends and b goes on, or a's next one is smaller.
LexBefore(a, b) ==
    \E k \in 0..Len(a) :
        /\ k <= Len(b)
        /\ \A i \in 1..k : a[i] = b[i]
        /\ \/ k = Len(a) /\ k < Len(b)
           \/ k < Len(a) /\ k < Len(b) /\ a[k + 1] < b[k + 1]

\* C1: for every listing graph (cycles included) and every pattern of fetch
\* successes and failures, discover_product_urls returns, with its queue empty,
\* and no listing URL is fetched more than once.
C1_TerminatesNoRefetch ==
    /\ <>(Returned /\ queue = <<>>)
    /\ [](\A l \in ListingUrls : fetches[l] <= 1)

\* C1's case: the traversal has ended on a site whose pager links form a cycle.
C1_Witness ==
    /\ Returned
    /\ \E a \in ListingUrls : \E b \in ListingUrls \ {a} :
        {a, b} \subseteq ok_pages /\ next_of[a] = b /\ next_of[b] = a

\* run has ended: the file is written, or an exception left run.
RunEnded == cpc \in {"done", "crashed", "sink_failed"}

\* C2: on every listing graph with a pagination cycle whose pages all have a
\* product link, the `while current_url` loop of run ends, and no listing page
\* is loaded twice.
C2_CsvCycleTerminates ==
    /\ <>RunEnded
    /\ [](\A l \in ListingUrls : loads[l] <= 1)

\* C3: the returned collection holds each product URL once, and is exactly the
\* union of the product links of the listing pages that were fetched.
C3_DiscoveredIsUnion ==
    Returned =>
        /\ Range(found) = linked
        /\ Len(found) = Cardinality(linked)

\* C3's case: two fetched pages link the same product URL.
C3_Witness ==
    /\ Returned
    /\ relinked
    /\ Cardinality(ok_pages) = 2

\* C4: the returned list is in strictly ascending lexicographic order, with no
\* element twice, and it lists a set that no order enters: the links of the
\* fetched pages, which are the pages reachable from the set of start URLs.
C4_SortedDeterministic ==
    Returned =>
        /\ \A i \in 1..Len(found) : \A j \in 1..Len(found) :
              i < j => LexBefore(found[i], found[j])
        /\ Range(found) = linked
        /\ ok_pages \cup failed_pages = Reach(Range(start_urls))

\* C4's case: two start URLs, and a list in which string order and number
\* order differ ("/10" before "/9").
C4_Witness ==
    /\ Returned
    /\ Len(start_urls) = 2 /\ start_urls[1] # start_urls[2]
    /\ Len(found) = 2
    /\ Len(found[1]) > Len(found[2])

\* C5: when no fetch fails, exactly the listing pages reachable from the start
\* URLs are fetched, each once, and the result is the union of their links.
C5_FetchesReachableOnce ==
    (Returned /\ failed_pages = {}) =>
        /\ \A l \in ListingUrls :
              fetches[l] = IF l \in Reach(Range(start_urls)) THEN 1 ELSE 0
        /\ ok_pages = Reach(Range(start_urls))
        /\ Range(found) = linked

\* C5's case: one start page whose pager names a second page, which has none;
\* both were fetched.
C5_Witness ==
    /\ Returned /\ failed_pages = {}
    /\ Len(start_urls) = 1
    /\ next_of[start_urls[1]] \in ListingUrls \ {start_urls[1]}
    /\ next_of[next_of[start_urls[1]]] = <<>>
    /\ Cardinality(ok_pages) = 2
    /\ Len(found) = 2

\* C6: discovery runs once and is over before any product page is fetched;
\* the list written to the file has one record per discovered URL, in the order
\* of the discovered list, each with that URL, whichever items fail or raise.
C6_OneRecordPerUrl ==
    /\ discover_calls <= 1
    /\ product_fetches > 0 => (discover_calls = 1 /\ Returned /\ queue = <<>>)
    /\ Returned => found = sorted(product_urls)
    /\ sink # None =>
        /\ Len(sink[1]) = Len(found)
        /\ \A i \in 1..Len(found) : sink[1][i].url = found[i]

\* C6's case: the file was written after a run in which one item's fetch
\* failed and another item raised.
C6_Witness ==
    /\ sink # None
    /\ Len(found) = 2
    /\ "fetch_failed" \in Range(fates)
    /\ "raised" \in Range(fates)

\* The placeholder record of the specification: url set, title and
\* short_description null, the lists and the mapping empty.
Placeholder(u) ==
    [url |-> u, title |-> None, short_description |-> None, categories |-> <<>>,
     tags |-> <<>>, advantages |-> <<>>, technical_info |-> <<>>]

\* C7: the record of an item whose fetch failed, or for which
\* scrape_product_details raised, is the placeholder; the loop goes on to the
\* next URL, and the records appended before stay as they are.
C7_PlaceholderOnFailure ==
    /\ [](/\ Len(fates) = Len(results)
          /\ \A i \in 1..Len(results) :
                fates[i] \in {"fetch_failed", "raised"} => results[i] = Placeholder(found[i])
          /\ pc = "for" => idx = Len(results) + 1)
    /\ [][/\ Len(results') >= Len(results)
          /\ SubSeq(results', 1, Len(results)) = results]_vars

\* C7's case: an item failed, and the next item was then scraped into a
\* record that is not the placeholder.
C7_Witness ==
    /\ Len(results) = 2
    /\ fates[1] \in {"fetch_failed", "raised"}
    /\ fates[2] = "ok"
    /\ results[2] # Placeholder(found[2])

\* The placeholder row of the specification: url set, every other field empty.
PlaceholderRow(link) ==
    [nome |-> "", sku |-> "", categoria |-> <<>>, marca |-> <<>>, descricao |-> <<>>,
     imagens |-> <<>>, url |-> link]

RowsOf(link) == {i \in 1..Len(produtos) : produtos[i].url = link}

\* C8: every product link run has met has exactly one row in the output, and
\* the row of a link whose processing raised is the placeholder.
C8_CsvRowPerLink ==
    \A link \in seen_links :
        /\ Cardinality(RowsOf(link)) = 1
        /\ link \in failed_links => \A i \in RowsOf(link) : produtos[i] = PlaceholderRow(link)

\* The fetch of the popped listing page has failed.
ListingFetchFailed == pc = "listing_fetched" /\ html = None

\* C9: when the fetch of a listing page fails, the step that handles it
\* changes neither the discovered set nor the frontier, the page stays visited
\* and is never fetched again, nothing is recorded for it, and the traversal
\* goes on until the frontier is empty.
C9_ListingFailureIsolated ==
    /\ [][ListingFetchFailed =>
            /\ product_urls' = product_urls
            /\ queue' = queue
            /\ listing_url \in visited_listing_pages'
            /\ pc' = "while"]_vars
    /\ [](\A l \in failed_pages :
            /\ l \in visited_listing_pages
            /\ fetches[l] <= 1
            /\ next_of[l] = <<>>)
    /\ [](ListingFetchFailed =>
            <>(Returned /\ queue = <<>> /\ Range(start_urls) \subseteq visited_listing_pages))

\* C9's case: a listing page failed, and a page dequeued after it was fetched
\* and parsed.
C9_Witness ==
    /\ Returned
    /\ Len(start_urls) = 2
    /\ start_urls[1] \in failed_pages
    /\ start_urls[2] \in ok_pages
    /\ linked # {}

\* C10: whatever way the load of a listing page fails, run is not aborted: it
\* goes on to write the CSV file, which then holds every Produto collected.
C10_CsvTransportNonFatal ==
    /\ cpc # "crashed"
    /\ listing_failure # "none" => cpc \in {"close", "done", "sink_failed"}
    /\ cpc = "done" => csv = Some(produtos)

\* C11: when fetch_html is about to issue a GET, the delay of every GET issued
\* before it has run: between two consecutive GETs there is a time.sleep,
\* also when the earlier GET raised a timeout or a connection error.
C11_DelayBetweenFetches == pc = "fetch_get" => ~delay_due

\* C12: a URL is enqueued into the frontier at most once during a run.  A URL
\* leaves the queue only at a dequeue, which finds or makes it visited, so a
\* second enqueue shows as the URL twice in the queue or as a visited URL in
\* the queue: neither ever happens.
C12_EnqueuedOnce ==
    /\ \A i \in 1..Len(queue) : \A j \in 1..Len(queue) : queue[i] = queue[j] => i = j
    /\ \A i \in 1..Len(queue) : queue[i] \notin visited_listing_pages

\* C12 as amended: a URL is never appended to the queue once it is visited,
\* and no URL is fetched twice; while it is unvisited a URL may be enqueued
\* again (a repeated start URL, a next link to a queued page), and the copies
\* are skipped at dequeue.
C12_NoEnqueueOfVisited ==
    /\ [][Len(queue') > Len(queue) =>
            queue'[Len(queue')] \notin visited_listing_pages]_vars
    /\ [](\A l \in ListingUrls : fetches[l] <= 1)

\* C12's case: two different start URLs, and the first page's next link has
\* put the second, still queued, into the queue again.
C12_Witness ==
    /\ pc = "while"
    /\ Len(start_urls) = 2 /\ start_urls[1] # start_urls[2]
    /\ queue = <<start_urls[2], start_urls[2]>>

\* C13: a listing page without product links still has its next-page link
\* followed: when run has ended, the page such a link names has been loaded.
C13_EmptyPageNextFollowed ==
    cpc = "done" => (skipped_next = None \/ loads[skipped_next] >= 1)

\* C18: in every step of the traversal the discovered set and the visited set
\* keep what they hold, and the dequeue of a visited URL changes neither set,
\* issues no fetch, and goes on with the loop.
C18_SetsOnlyGrow ==
    [][/\ product_urls \subseteq product_urls'
       /\ visited_listing_pages \subseteq visited_listing_pages'
       /\ (pc = "while" /\ queue # <<>> /\ Head(queue) \in visited_listing_pages) =>
             /\ product_urls' = product_urls
             /\ visited_listing_pages' = visited_listing_pages
             /\ fetches' = fetches
             /\ pc' = "while"]_vars

\* C18's case: a start URL listed twice, whose page has product links and no
\* next page; its second copy has been dequeued.
C18_Witness ==
    /\ pc = "while" /\ queue = <<>>
    /\ Len(start_urls) = 2 /\ start_urls[1] = start_urls[2]
    /\ next_of[start_urls[1]] = <<>>
    /\ product_urls # {}

\* C20: run processes (loads and extracts) a product link only when it is not
\* yet in seen_links, and puts it there, so each link is processed at most
\* once; the list never holds two records with the same url, and a link whose
\* processing failed never gets a record, on whichever later page it appears.
C20_CsvLinkOnce ==
    /\ [][/\ seen_links \subseteq seen_links'
          /\ (produtos' # produtos \/ failed_links' # failed_links) =>
                /\ product_links[link_i] \notin seen_links
                /\ seen_links' = seen_links \cup {product_links[link_i]}
                /\ \/ produtos' = produtos
                   \/ /\ Len(produtos') = Len(produtos) + 1
                      /\ SubSeq(produtos', 1, Len(produtos)) = produtos
                      /\ produtos'[Len(produtos')].url = product_links[link_i]]_vars
    /\ [](/\ \A i \in 1..Len(produtos) : \A j \in 1..Len(produtos) :
                produtos[i].url = produtos[j].url => i = j
          /\ \A link \in failed_links : RowsOf(link) = {})

\* C20's case: on a later listing page, run has passed over a link that had
\* failed on the first page.
C20_Witness ==
    /\ cpc = "links"
    /\ page_index = 2
    /\ link_i = 2
    /\ produtos = <<>>
    /\ failed_links = {product_links[1]}

\* The file name of the image at hand.
ImageAtHand == _filename_from_url(image_urls[img_i], img_i)

\* C19: an image whose file exists causes no request and its path is still
\* appended; and a second call with the same arguments, after a first call in
\* which nothing raised, issues no request and returns the list the first
\* returned.
C19_DownloadIdempotent ==
    /\ [][(ipc = "loop" /\ img_i <= Len(image_urls) /\ ImageAtHand \in files) =>
            /\ image_fetches' = image_fetches
            /\ files' = files
            /\ relative_paths' = Append(relative_paths, ImageAtHand)]_vars
    /\ []((call = 2 /\ first_clean) =>
            /\ image_fetches = 0
            /\ ipc = "returned" => relative_paths = first_paths)

\* C19's case: the first call stored two files, and the second call has
\* returned.
C19_Witness ==
    /\ call = 2 /\ first_clean /\ ipc = "returned"
    /\ Len(first_paths) = 2
    /\ first_paths[1] # first_paths[2]
    /\ Range(first_paths) = files

\* The marker paragraph of the page at hand: the first p of the description
\* container whose strong holds the marker phrase, in whatever case (0: none).
MarkerParagraph ==
    IF soup.tab = None THEN 0
    ELSE LET nodes == soup.tab[1]
             IsMarked(n) == n.kind = "p" /\ n.text # None
                            /\ Contains(Lower(n.text[1]), TechMarker)
         IN IF \A i \in 1..Len(nodes) : ~IsMarked(nodes[i]) THEN 0
            ELSE CHOOSE i \in 1..Len(nodes) :
                    IsMarked(nodes[i]) /\ \A j \in 1..(i - 1) : ~IsMarked(nodes[j])

\* Its segments.
MarkerSegments == soup.tab[1][MarkerParagraph].items

\* A text without the blanks at its ends, stated on positions.
Trimmed(s) ==
    LET inked == {i \in 1..Len(s) : s[i] # 32} IN
    IF inked = {} THEN <<>>
    ELSE SubSeq(s, CHOOSE i \in inked : \A j \in inked : i <= j,
                   CHOOSE i \in inked : \A j \in inked : j <= i)

\* The place of the first colon of a text that has one.
FirstColon(s) == CHOOSE c \in 1..Len(s) : s[c] = 58 /\ \A i \in 1..(c - 1) : s[i] # 58

SegmentKey(s) == Trimmed(SubSeq(Trimmed(s), 1, FirstColon(Trimmed(s)) - 1))
SegmentValue(s) == Trimmed(SubSeq(Trimmed(s), FirstColon(Trimmed(s)) + 1, Len(Trimmed(s))))

\* The mapping of the segments at the places of K, the last segment of a key
\* giving its value: a set of <<key, value>>.
LastWins(segments, K) ==
    {<<SegmentKey(segments[i]), SegmentValue(segments[i])>> :
        i \in {i \in K : \A j \in K : j > i => SegmentKey(segments[j]) # SegmentKey(segments[i])}}

\* C14: technical_info maps key to value for exactly the non-empty segments
\* that do not hold the marker phrase and hold a colon, split at the first
\* colon and trimmed, the last segment of a key winning.
C14_TechnicalInfoAsClaimed ==
    (spc = "returned" /\ MarkerParagraph # 0) =>
        LET K == {i \in 1..Len(MarkerSegments) :
                    /\ Trimmed(MarkerSegments[i]) # <<>>
                    /\ ~Contains(Lower(MarkerSegments[i]), TechMarker)
                    /\ 58 \in Range(MarkerSegments[i])}
        IN /\ Range(technical_info) = LastWins(MarkerSegments, K)
           /\ Len(technical_info) = Cardinality(LastWins(MarkerSegments, K))

\* C14 as amended: the segments left out are those that START with the
\* marker phrase (in whatever case), and those with nothing but blanks before
\* their first colon.
C14_TechnicalInfo ==
    (spc = "returned" /\ MarkerParagraph # 0) =>
        LET K == {i \in 1..Len(MarkerSegments) :
                    /\ Trimmed(MarkerSegments[i]) # <<>>
                    /\ ~StartsWith(Lower(Trimmed(MarkerSegments[i])), TechMarker)
                    /\ 58 \in Range(MarkerSegments[i])
                    /\ SegmentKey(MarkerSegments[i]) # <<>>}
        IN /\ Range(technical_info) = LastWins(MarkerSegments, K)
           /\ Len(technical_info) = Cardinality(LastWins(MarkerSegments, K))

\* C14's case: the title line "M:", then "a:a", then " a : b ": the mapping
\* is {a: b}.
C14_Witness ==
    /\ spc = "returned"
    /\ MarkerParagraph # 0
    /\ MarkerSegments = << <<77, 58>>, <<97, 58, 97>>, <<32, 97, 32, 58, 32, 98, 32>> >>
    /\ technical_info = << << <<97>>, <<98>> >> >>

\* The nodes of the page at hand, in document order.
DocumentNodes == (IF soup.tab = None THEN <<>> ELSE soup.tab[1]) \o soup.rest

\* The least number of a set of numbers that is not empty.
Least(S) == CHOOSE i \in S : \A j \in S : i <= j

\* The items of the first list after the first of the headings at the places
\* of H (the empty list when H is empty or no list follows).
ListAfterFirst(H) ==
    IF H = {} THEN <<>>
    ELSE LET L == {j \in (Least(H) + 1)..Len(DocumentNodes) : DocumentNodes[j].kind = "ul"}
         IN IF L = {} THEN <<>> ELSE DocumentNodes[Least(L)].items

\* A heading whose text holds the marker word, in whatever case.
IsMarkerHeading(n) == n.kind = "h2" /\ Contains(Lower(n.text[1]), AdvMarker)

\* C15: advantages is the list of the item texts of the first list that
\* follows the first heading whose text holds the marker word, and the empty
\* list when there is no such heading or no list after it.
C15_AdvantagesAsClaimed ==
    spc = "returned" =>
        advantages = ListAfterFirst({i \in 1..Len(DocumentNodes) :
                                        IsMarkerHeading(DocumentNodes[i])})

\* C15 as amended: the heading is looked for inside div#tab-description only
\* (the list may follow anywhere after it), and the items without text are
\* left out.
C15_Advantages ==
    spc = "returned" =>
        advantages =
            SelectSeq(ListAfterFirst(
                        {i \in 1..(IF soup.tab = None THEN 0 ELSE Len(soup.tab[1])) :
                            IsMarkerHeading(DocumentNodes[i])}),
                      LAMBDA txt : txt # <<>>)

\* C15's case: a list, then the heading "V" in the container, and after the
\* container the list "a", "", "b": advantages is "a", "b".
C15_Witness ==
    /\ spc = "returned"
    /\ soup.tab = Some(<<Ul(<< <<98>> >>), H2(<<86>>)>>)
    /\ soup.rest = <<Ul(<< <<97>>, <<>>, <<98>> >>)>>
    /\ advantages = << <<97>>, <<98>> >>

\* C16: scrape_product_details raises nothing to its caller, and on a page
\* that matches none of its selectors it returns the record with the url and
\* every other field null or empty.
C16_NeverRaises ==
    /\ spc # "raised"
    /\ (spc = "returned" /\ soup = BareDoc) => ReturnedRecord = Placeholder(product_url)

\* C17: in the record returned, a field whose section raised has its default,
\* and every other field has the value the page gives it when nothing raises.
C17_FieldIsolation ==
    spc = "returned" =>
        LET clean == ScrapedRecord(product_url, soup) IN
        /\ ReturnedRecord.url = product_url
        /\ title = IF "title" \in faults THEN None ELSE clean.title
        /\ short_description =
              IF "short_description" \in faults THEN None ELSE clean.short_description
        /\ categories = IF "categories" \in faults THEN <<>> ELSE clean.categories
        /\ tags = IF "tags" \in faults THEN <<>> ELSE clean.tags
        /\ advantages = IF "advantages" \in faults THEN <<>> ELSE clean.advantages
        /\ technical_info =
              IF "technical_info" \in faults THEN <<>> ELSE clean.technical_info

\* C21: at every point of the traversal, every URL of the discovered product
\* set was linked from a listing page that is in the visited set and whose
\* fetch returned markup, and every listing URL that has been fetched was put
\* in the visited set before its fetch was issued.  `linked` holds the links of
\* the pages of ok_pages, the pages whose fetch returned markup; a step that
\* adds to the product set is the step that reads such a page.
C21_DiscoveredFromVisited ==
    /\ [](InDiscover =>
            /\ product_urls \subseteq linked
            /\ ok_pages \subseteq visited_listing_pages
            /\ (product_urls # {} => ok_pages # {})
            /\ \A l \in ListingUrls : fetches[l] >= 1 => l \in visited_listing_pages
            /\ (pc \in {"fetch_get", "fetch_sleep", "listing_fetched", "listing_next"}
                    => listing_url \in visited_listing_pages))
    /\ [][product_urls' # product_urls =>
            /\ pc = "listing_fetched"
            /\ html # None
            /\ fetches[listing_url] >= 1
            /\ listing_url \in visited_listing_pages
            /\ listing_url \in ok_pages'
            /\ product_urls' \ product_urls \subseteq linked' \ product_urls]_vars

\* C21's case: in the middle of the traversal the visited set holds a page
\* whose fetch failed and a page whose links are in the product set, and the
\* fetch of no other page is under way.
C21_Witness ==
    /\ pc = "listing_next"
    /\ failed_pages # {}
    /\ product_urls # {}
    /\ Cardinality(visited_listing_pages) = 2
    /\ ok_pages = {listing_url}

====
